---- MODULE Spec2Model ----
(***************************************************************************)
(* A model of the BTree storage engine of src/lib.rs: the orchestrator     *)
(* BTree<K, V> (new, insert, get, compact) over its three collaborators,   *)
(* the write-ahead log (wal_file::RecordFile), the in-memory multimap      *)
(* (multi_map::MultiMap) and the on-disk store (disk_btree::OnDiskBTree).  *)
(* The collaborators are the modules disk_btree, multi_map and wal_file    *)
(* that lib.rs declares; their operations are modelled from their          *)
(* documented contracts and from the way lib.rs and its tests use them.    *)
(*                                                                         *)
(* Keys and values are small integers (Rust's Ord on them is <=).  A file  *)
(* is a record [exists, recs]: whether it exists and the sequence of the   *)
(* fixed-width records it holds.                                           *)
(***************************************************************************)
EXTENDS Integers, Sequences, FiniteSets, TLC

VARIABLES
    disk,          \* file name -> [exists, recs]: the three files of the base path
    engine,        \* "closed" (no BTree value alive) or "ready" (BTree::new returned Ok)
    mem_tree,      \* BTree.mem_tree: the multimap's entries, sorted by (key, value), no duplicates
    mem_count,     \* the multimap's total item count (what MultiMap::insert returns)
    inserted,      \* history: every record insert() committed (its WAL append returned Ok), in call order, over all sessions
    session_start, \* history: Len(inserted) when the current session was opened
    fresh,         \* history: the current session was opened on a path with no file at all
    sessions,      \* history: number of times BTree::new returned Ok
    compactions,   \* history: number of compact() calls made in the current session
    merged,        \* history: the stream itertools::merge produced in the latest compact(), with its sources
    last           \* history: the latest call, where it ended (result) and what the caller got back (returned)

vars == <<disk, engine, mem_tree, mem_count, inserted, session_start, fresh,
          sessions, compactions, merged, last>>

---------------------------------------------------------------------------
(* Bounds of the model and the program's constant.                         *)

\* const MAX_MEMORY_ITEMS: usize = 1000;
MAX_MEMORY_ITEMS == 1000

\* keys are 1..NKeys and values 1..NVals in the general specification
NKeys == 2
NVals == 2
\* at most MaxWal records are ever appended to the WAL in the general specification
MaxWal == 3
\* the engine is opened successfully at most MaxSessions times
MaxSessions == 3
\* the threshold scenario makes MAX_MEMORY_ITEMS + ExtraInserts inserts
ExtraInserts == 2
\* the merge scenario: a store file of at most MaxDisk records exists at P, and the
\* first MAX_MEMORY_ITEMS inserts made at most MaxMem distinct associations
MaxDisk == 2
MaxMem == 1

Keys == 1..NKeys
Values == 1..NVals

---------------------------------------------------------------------------
(* Files of the base path P.                                               *)

TreePath == "P"
WalPath == "P.wal"
NewPath == "P.new"
Paths == {TreePath, WalPath, NewPath}

NoFile == [exists |-> FALSE, recs |-> <<>>]
EmptyFile == [exists |-> TRUE, recs |-> <<>>]

---------------------------------------------------------------------------
(* wal_file::KeyValuePair and its order.                                   *)

KeyValuePair(k, v) == [key |-> k, value |-> v]

\* Ord for KeyValuePair: by key, then by value
Less(a, b) == a.key < b.key \/ (a.key = b.key /\ a.value < b.value)

LessEq(a, b) == a = b \/ Less(a, b)

---------------------------------------------------------------------------
(* wal_file::RecordFile and disk_btree::OnDiskBTree: a flat file of        *)
(* records.                                                                *)

\* RecordFile::new / OnDiskBTree::new: create the file if absent, else attach to it
FileOpen(d, path) ==
    IF d[path].exists THEN d ELSE [d EXCEPT ![path] = EmptyFile]

\* insert_record: write one record at the end of the file
FileAppend(d, path, rec) ==
    [d EXCEPT ![path].recs = Append(@, rec)]

\* writes a whole stream, one insert_record per element
FileAppendAll(d, path, recs) ==
    [d EXCEPT ![path].recs = @ \o recs]

\* count(): number of records in the file
count(d, path) == Len(d[path].recs)

\* is_new(): the file holds nothing
is_new(d, path) == Len(d[path].recs) = 0

\* the error a failed RecordFile::new or RecordFile::insert_record returns
WalError == "IOError"

\* the error a failed OnDiskBTree::new or OnDiskBTree::insert_record returns
StoreError == "IOError"

---------------------------------------------------------------------------
(* multi_map::MultiMap.                                                    *)

\* MultiMap::new()
EmptyMap == <<>>

\* MultiMap::insert: add the value to the key's ordered set
MultiMapInsert(m, k, v) ==
    LET r == KeyValuePair(k, v) IN
    IF \E i \in 1..Len(m) : m[i] = r
    THEN m
    ELSE LET pos == Cardinality({i \in 1..Len(m) : Less(m[i], r)})
         IN  SubSeq(m, 1, pos) \o <<r>> \o SubSeq(m, pos + 1, Len(m))

\* MultiMap::get: None, or the key's values in ascending order
MultiMapGet(m, k) ==
    LET es == SelectSeq(m, LAMBDA e : e.key = k) IN
    IF Len(es) = 0
    THEN [some |-> FALSE, values |-> <<>>]
    ELSE [some |-> TRUE, values |-> [i \in 1..Len(es) |-> es[i].value]]

\* MultiMap::contains_key
contains_key(m, k) == \E i \in 1..Len(m) : m[i].key = k

\* (&MultiMap).into_iter(): the entries by key, then by value
MultiMapEntries(m) == m

---------------------------------------------------------------------------
(* itertools::merge: the two-pointer merge of two streams.  The streams    *)
(* carry their source so that the order of equal records can be stated;    *)
(* the comparison reads the record alone.                                  *)

Tag(recs, src) == [i \in 1..Len(recs) |-> [rec |-> recs[i], src |-> src]]

Untag(stream) == [i \in 1..Len(stream) |-> stream[i].rec]

\* the first stream is read as long as its element is <= the second's current one:
\* the end (exclusive) of that run of a from i
FirstRunEnd(a, i, other) ==
    CHOOSE x \in i..(Len(a) + 1) :
        /\ (x = Len(a) + 1 \/ ~LessEq(a[x].rec, other.rec))
        /\ \A y \in i..(x - 1) : LessEq(a[y].rec, other.rec)

\* the second stream is read as long as the first's current element is not <= its
\* element: the end (exclusive) of that run of b from j
SecondRunEnd(b, j, other) ==
    CHOOSE x \in j..(Len(b) + 1) :
        /\ (x = Len(b) + 1 \/ LessEq(other.rec, b[x].rec))
        /\ \A y \in j..(x - 1) : ~LessEq(other.rec, b[y].rec)

\* merge(a, b) from positions i and j: the next element is a's when a[i] <= b[j],
\* else b's; a whole run of one source is taken at a time
RECURSIVE MergeFrom(_, _, _, _)
MergeFrom(a, i, b, j) ==
    IF i > Len(a) THEN SubSeq(b, j, Len(b))
    ELSE IF j > Len(b) THEN SubSeq(a, i, Len(a))
    ELSE IF LessEq(a[i].rec, b[j].rec)
         THEN LET stop == FirstRunEnd(a, i, b[j])
              IN  SubSeq(a, i, stop - 1) \o MergeFrom(a, stop, b, j)
         ELSE LET stop == SecondRunEnd(b, j, a[i])
              IN  SubSeq(b, j, stop - 1) \o MergeFrom(a, i, b, stop)

\* merge with its two streams exchanged
merge_swapped(a, b) == MergeFrom(b, 1, a, 1)

merge(a, b) == MergeFrom(a, 1, b, 1)

---------------------------------------------------------------------------
(* BTree::new.                                                             *)

\* the replay loop: insert every WAL record into the multimap
RECURSIVE Replay(_, _, _)
Replay(m, n, recs) ==
    IF Len(recs) = 0
    THEN [tree |-> m, count |-> n]
    ELSE Replay(MultiMapInsert(m, recs[1].key, recs[1].value), n + 1, Tail(recs))

\* let mut wal_file = RecordFile::new(&wal_file_path, key_size, value_size)?;
new_wal_file(d) == FileOpen(d, WalPath)

\* if wal_file.is_new()? { for kv in &mut wal_file { mem_tree.insert(kv.key, kv.value); } }
new_mem_tree(d) ==
    IF is_new(d, WalPath)
    THEN Replay(EmptyMap, 0, d[WalPath].recs)
    ELSE [tree |-> EmptyMap, count |-> 0]

\* a BTree::new that never opens the data file
new_tree_file_skipped(d) == d

\* let tree_file = OnDiskBTree::new(tree_file_path.to_owned(), key_size, value_size)?;
new_tree_file(d) == FileOpen(d, TreePath)

NewOutcomes == {"ok", "wal_err", "tree_err"}

\* BTree::new: "wal_err" and "tree_err" are the two early returns (the ? operators)
new(outcome) ==
    /\ engine = "closed"
    /\ LET d1 == new_wal_file(disk)
           replayed == new_mem_tree(d1)
           d2 == new_tree_file(d1)
       IN  /\ disk' = CASE outcome = "wal_err" -> disk
                        [] outcome = "tree_err" -> d1
                        [] OTHER -> d2
           /\ engine' = IF outcome = "ok" THEN "ready" ELSE "closed"
           /\ mem_tree' = IF outcome = "ok" THEN replayed.tree ELSE EmptyMap
           /\ mem_count' = IF outcome = "ok" THEN replayed.count ELSE 0
    /\ session_start' = Len(inserted)
    /\ fresh' = (outcome = "ok" /\ \A p \in Paths : ~disk[p].exists)
    /\ sessions' = IF outcome = "ok" THEN sessions + 1 ELSE sessions
    /\ compactions' = 0
    /\ last' = [op |-> "new", result |-> outcome, key |-> 0, value |-> 0,
                returned |-> CASE outcome = "wal_err" -> WalError
                               [] outcome = "tree_err" -> StoreError
                               [] OTHER -> "Ok"]
    /\ UNCHANGED <<inserted, merged>>

\* the BTree value goes out of scope: its memory is released, the files stay
Drop ==
    /\ engine = "ready"
    /\ engine' = "closed"
    /\ mem_tree' = EmptyMap
    /\ mem_count' = 0
    /\ fresh' = FALSE
    /\ compactions' = 0
    /\ last' = [op |-> "drop", result |-> "ok", key |-> 0, value |-> 0, returned |-> "Ok"]
    /\ UNCHANGED <<disk, inserted, session_start, sessions, merged>>

---------------------------------------------------------------------------
(* BTree::get.                                                             *)

\* a lookup that falls back to the store file at P when the multimap has no
\* entry for the key
get_store_fallback(k) ==
    IF MultiMapGet(mem_tree, k).some
    THEN MultiMapGet(mem_tree, k)
    ELSE MultiMapGet(disk[TreePath].recs, k)

\* self.mem_tree.get(key), on &self: a read of the multimap and nothing else
get(k) == MultiMapGet(mem_tree, k)

---------------------------------------------------------------------------
(* BTree::compact and BTree::insert.                                       *)

\* where a call may fail: nowhere, in the WAL append, in opening P.new, or in
\* writing the first or the last record of the merged stream
FailPoints == {"none", "wal", "new_open", "write_first", "write_last"}

\* for kv in merge(mem_iter, disk_iter)
compact_stream(d, m) ==
    merge(Tag(MultiMapEntries(m), "mem"), Tag(d[TreePath].recs, "disk"))

\* a compact that finishes the job: the new file replaces the store, the WAL is
\* recreated empty
compact_swap_truncate(d, m, fail) ==
    IF fail = "new_open"
    THEN [disk |-> d, mem_tree |-> m, merged |-> <<>>, ok |-> FALSE]
    ELSE LET stream == compact_stream(d, m)
         IN  IF fail \in {"write_first", "write_last"}
             THEN [disk |-> d, mem_tree |-> m, merged |-> stream, ok |-> FALSE]
             ELSE [disk |-> [d EXCEPT ![TreePath] = [exists |-> TRUE, recs |-> Untag(stream)],
                                      ![WalPath] = EmptyFile],
                   mem_tree |-> m, merged |-> stream, ok |-> TRUE]

\* a compact that empties the multimap once its entries are written
compact_clear_memory(d, m, fail) ==
    IF fail = "new_open"
    THEN [disk |-> d, mem_tree |-> m, merged |-> <<>>, ok |-> FALSE]
    ELSE LET d1 == FileOpen(d, NewPath)
             stream == compact_stream(d, m)
             n == CASE fail = "write_first" -> 0
                    [] fail = "write_last" -> Len(stream) - 1
                    [] OTHER -> Len(stream)
         IN  [disk |-> FileAppendAll(d1, NewPath, SubSeq(Untag(stream), 1, n)),
              mem_tree |-> IF n = Len(stream) THEN EmptyMap ELSE m,
              merged |-> stream,
              ok |-> n = Len(stream)]

\* BTree::compact on files d and multimap m: the files and the multimap after
\* it, the merged stream, and whether it returned Ok
compact(d, m, fail) ==
    IF fail = "new_open"
    THEN [disk |-> d, mem_tree |-> m, merged |-> <<>>, ok |-> FALSE]
    ELSE LET d1 == FileOpen(d, NewPath)
             stream == compact_stream(d, m)
             n == CASE fail = "write_first" -> 0
                    [] fail = "write_last" -> Len(stream) - 1
                    [] OTHER -> Len(stream)
         IN  [disk |-> FileAppendAll(d1, NewPath, SubSeq(Untag(stream), 1, n)),
              mem_tree |-> m,
              merged |-> stream,
              ok |-> n = Len(stream)]

\* an insert_record that writes nothing
insert_wal_skipped(d, k, v) == d

\* self.wal_file.insert_record(&record)?;
insert_wal(d, k, v) == FileAppend(d, WalPath, KeyValuePair(k, v))

\* an insert that leaves the multimap alone
insert_mem_skipped(m, k, v) == m

\* self.mem_tree.insert(key, value)
insert_mem(m, k, v) == MultiMapInsert(m, k, v)

\* a size that counts the associations the multimap holds
insert_size_distinct(m1, n) == Len(m1)

\* let size = self.mem_tree.insert(key, value): the size MultiMap::insert returns
\* is the number of inserts applied to the multimap, n before this one
insert_size(m1, n) == n + 1

\* the threshold test with >= for >
over_threshold_inclusive(size) == size >= MAX_MEMORY_ITEMS

\* a threshold test that is true only when the size crosses the threshold
over_threshold_once(size) == size = MAX_MEMORY_ITEMS + 1

\* if size > MAX_MEMORY_ITEMS
over_threshold(size) == size > MAX_MEMORY_ITEMS

\* an insert that updates the multimap before it appends to the WAL, so that a
\* failed append leaves the association in memory
insert_index_first(k, v, fail) ==
    /\ engine = "ready"
    /\ IF fail = "wal"
       THEN /\ mem_tree' = insert_mem(mem_tree, k, v)
            /\ mem_count' = mem_count + 1
            /\ last' = [op |-> "insert", result |-> "wal_err", key |-> k, value |-> v,
                        returned |-> WalError]
            /\ UNCHANGED <<disk, inserted, compactions, merged>>
       ELSE LET d1 == insert_wal(disk, k, v)
                m1 == insert_mem(mem_tree, k, v)
                size == insert_size(m1, mem_count)
            IN  /\ mem_count' = size
                /\ inserted' = Append(inserted, KeyValuePair(k, v))
                /\ IF over_threshold(size)
                   THEN LET c == compact(d1, m1, fail)
                        IN  /\ disk' = c.disk
                            /\ mem_tree' = c.mem_tree
                            /\ merged' = c.merged
                            /\ compactions' = compactions + 1
                            /\ last' = [op |-> "insert",
                                        result |-> IF c.ok THEN "ok" ELSE "compact_err",
                                        key |-> k, value |-> v,
                                        returned |-> IF c.ok THEN "Ok" ELSE StoreError]
                   ELSE /\ disk' = d1
                        /\ mem_tree' = m1
                        /\ last' = [op |-> "insert", result |-> "ok", key |-> k, value |-> v,
                                    returned |-> "Ok"]
                        /\ UNCHANGED <<compactions, merged>>
    /\ UNCHANGED <<engine, session_start, fresh, sessions>>

\* BTree::insert: fail = "wal" is the early return of the WAL append; the
\* failures of compact() are returned after the record is in the WAL and the
\* multimap.  Both come back through `?`, as the collaborator's own error
insert(k, v, fail) ==
    /\ engine = "ready"
    /\ IF fail = "wal"
       THEN /\ last' = [op |-> "insert", result |-> "wal_err", key |-> k, value |-> v,
                        returned |-> WalError]
            /\ UNCHANGED <<disk, mem_tree, mem_count, inserted, compactions, merged>>
       ELSE LET d1 == insert_wal(disk, k, v)
                m1 == insert_mem(mem_tree, k, v)
                size == insert_size(m1, mem_count)
            IN  /\ mem_count' = size
                /\ inserted' = Append(inserted, KeyValuePair(k, v))
                /\ IF over_threshold(size)
                   THEN LET c == compact(d1, m1, fail)
                        IN  /\ disk' = c.disk
                            /\ mem_tree' = c.mem_tree
                            /\ merged' = c.merged
                            /\ compactions' = compactions + 1
                            /\ last' = [op |-> "insert",
                                        result |-> IF c.ok THEN "ok" ELSE "compact_err",
                                        key |-> k, value |-> v,
                                        returned |-> IF c.ok THEN "Ok" ELSE StoreError]
                   ELSE /\ disk' = d1
                        /\ mem_tree' = m1
                        /\ last' = [op |-> "insert", result |-> "ok", key |-> k, value |-> v,
                                    returned |-> "Ok"]
                        /\ UNCHANGED <<compactions, merged>>
    /\ UNCHANGED <<engine, session_start, fresh, sessions>>

---------------------------------------------------------------------------
(* The general specification: a nonexistent base path, then any calls with *)
(* keys in Keys and values in Values.                                      *)

Init ==
    /\ disk = [p \in Paths |-> NoFile]
    /\ engine = "closed"
    /\ mem_tree = EmptyMap
    /\ mem_count = 0
    /\ inserted = <<>>
    /\ session_start = 0
    /\ fresh = FALSE
    /\ sessions = 0
    /\ compactions = 0
    /\ merged = <<>>
    /\ last = [op |-> "none", result |-> "ok", key |-> 0, value |-> 0, returned |-> "Ok"]

Open ==
    /\ sessions < MaxSessions
    /\ \E outcome \in NewOutcomes : new(outcome)

Insert ==
    /\ count(disk, WalPath) < MaxWal
    /\ \E k \in Keys, v \in Values, fail \in FailPoints : insert(k, v, fail)

Next == Open \/ Insert \/ Drop

Spec == Init /\ [][Next]_vars

---------------------------------------------------------------------------
(* The threshold specification: a nonexistent base path, then inserts of   *)
(* distinct keys 1, 2, 3, ... (the n-th record of the WAL has key n) until *)
(* the WAL holds MAX_MEMORY_ITEMS + ExtraInserts records.  The engine is   *)
(* dropped only before its first insert or after a compaction.             *)

ThresholdInsert ==
    /\ count(disk, WalPath) < MAX_MEMORY_ITEMS + ExtraInserts
    /\ \E fail \in FailPoints : insert(count(disk, WalPath) + 1, 1, fail)

ThresholdDrop ==
    /\ (mem_count = 0 \/ compactions > 0)
    /\ Drop

NextThreshold == Open \/ ThresholdInsert \/ ThresholdDrop

SpecThreshold == Init /\ [][NextThreshold]_vars

---------------------------------------------------------------------------
(* The repeat specification: a nonexistent base path, then inserts of the  *)
(* one association (1, 1), again and again, until the WAL holds            *)
(* MAX_MEMORY_ITEMS + ExtraInserts records.                                *)

RepeatInsert ==
    /\ count(disk, WalPath) < MAX_MEMORY_ITEMS + ExtraInserts
    /\ \E fail \in FailPoints : insert(1, 1, fail)

NextRepeat == Open \/ RepeatInsert \/ ThresholdDrop

SpecRepeat == Init /\ [][NextRepeat]_vars

---------------------------------------------------------------------------
(* The merge specification: the inputs of compact() are drawn.  A sorted   *)
(* store file of at most MaxDisk records exists at P; an engine was opened *)
(* on it and MAX_MEMORY_ITEMS inserts were made, of at most MaxMem         *)
(* distinct associations (the distinct ones first, then the last one       *)
(* again).  The next insert runs compact() on the multimap and the store,  *)
(* and the scenario ends there.                                            *)

Records == {KeyValuePair(k, v) : k \in Keys, v \in Values}

SeqsUpTo(n) == UNION {[1..len -> Records] : len \in 0..n}

\* what a store file may hold: records in non-decreasing order
SortedStores ==
    {s \in SeqsUpTo(MaxDisk) : \A i \in 1..(Len(s) - 1) : LessEq(s[i], s[i + 1])}

\* what a multimap may hold: entries in increasing order
MemoryTrees ==
    {s \in SeqsUpTo(MaxMem) : Len(s) > 0 /\ \A i \in 1..(Len(s) - 1) : Less(s[i], s[i + 1])}

\* MAX_MEMORY_ITEMS inserts that leave the multimap m
Fill(m) == [i \in 1..MAX_MEMORY_ITEMS |-> IF i <= Len(m) THEN m[i] ELSE m[Len(m)]]

InitMerge ==
    \E m \in MemoryTrees, d \in SortedStores :
        /\ disk = [p \in Paths |->
                      CASE p = TreePath -> [exists |-> TRUE, recs |-> d]
                        [] p = WalPath -> [exists |-> TRUE, recs |-> Fill(m)]
                        [] OTHER -> NoFile]
        /\ engine = "ready"
        /\ mem_tree = m
        /\ mem_count = MAX_MEMORY_ITEMS
        /\ inserted = Fill(m)
        /\ session_start = 0
        /\ fresh = FALSE
        /\ sessions = 1
        /\ compactions = 0
        /\ merged = <<>>
        /\ last = [op |-> "insert", result |-> "ok",
                   key |-> m[Len(m)].key, value |-> m[Len(m)].value, returned |-> "Ok"]

\* the WAL append of this insert succeeds; compact() succeeds or fails on its
\* last record
MergeInsert ==
    /\ mem_count = MAX_MEMORY_ITEMS
    /\ \E k \in Keys, v \in Values, fail \in {"none", "write_last"} : insert(k, v, fail)

NextMerge == MergeInsert

SpecMerge == InitMerge /\ [][NextMerge]_vars

---------------------------------------------------------------------------
(* What the claims read.                                                   *)

\* the values committed for key k by the inserts after the first `from`
ValuesInserted(k, from) ==
    {inserted[i].value : i \in {j \in (from + 1)..Len(inserted) : inserted[j].key = k}}

\* the values get(k) yields, as a set
GetValues(k) == {get(k).values[i] : i \in 1..Len(get(k).values)}

Ascending(vs) == \A i \in 1..(Len(vs) - 1) : vs[i] < vs[i + 1]

WalRecords == disk[WalPath].recs

---------------------------------------------------------------------------
(* C1: replay completeness.  Right after an engine is opened, get(k)       *)
(* yields exactly the values ever inserted for k on that base path, for    *)
(* every key k: the index is rebuilt from the WAL.                         *)
C1_ReplayCompleteness ==
    (engine = "ready" /\ last.op = "new") =>
        \A k \in Keys :
            /\ get(k).some = (ValuesInserted(k, 0) # {})
            /\ GetValues(k) = ValuesInserted(k, 0)

(* C2: in a session opened on a fresh path, get(k) is None when k was      *)
(* never inserted and otherwise yields exactly the distinct values         *)
(* inserted for k, in ascending order (no overwrite).                      *)
C2_SessionGet ==
    (engine = "ready" /\ fresh) =>
        \A k \in Keys :
            /\ get(k).some = (ValuesInserted(k, session_start) # {})
            /\ GetValues(k) = ValuesInserted(k, session_start)
            /\ Ascending(get(k).values)

\* (1, 2) then (1, 1) were inserted: get(1) yields both, ascending
C2_Witness ==
    /\ engine = "ready"
    /\ fresh
    /\ inserted = <<KeyValuePair(1, 2), KeyValuePair(1, 1)>>
    /\ get(1) = [some |-> TRUE, values |-> <<1, 2>>]
    /\ ~get(2).some

(* C7: an engine opened on a base path on which nothing was ever inserted  *)
(* (a nonexistent path, or such an engine closed and opened again) has a   *)
(* store file at P and a WAL at P.wal, both of zero length, both is_new(), *)
(* both with count() 0.                                                    *)
C7_FreshOpen ==
    (engine = "ready" /\ last.op = "new" /\ inserted = <<>>) =>
        \A p \in {TreePath, WalPath} :
            /\ disk[p] = EmptyFile
            /\ is_new(disk, p)
            /\ count(disk, p) = 0

\* the still-empty engine opened a second time
C7_Witness ==
    /\ engine = "ready"
    /\ last.op = "new"
    /\ sessions = 2
    /\ inserted = <<>>
    /\ ~fresh

(* C9 as claimed: wal.is_new() keeps, for the whole session, the value it  *)
(* had when the engine was opened.                                         *)
C9_IsNewFixed ==
    [][(engine = "ready" /\ engine' = "ready") =>
           (is_new(disk', WalPath) = is_new(disk, WalPath))]_vars

(* C9, amended: wal.is_new() tells whether the WAL holds no record now: in *)
(* an open engine it is true exactly as long as no insert was ever         *)
(* committed on the base path, so it turns false with the first insert of  *)
(* a session opened on a fresh path.                                       *)
C9_IsNewCurrent ==
    engine = "ready" => (is_new(disk, WalPath) <=> inserted = <<>>)

\* a session opened on a fresh path, one insert later
C9_Witness ==
    /\ engine = "ready"
    /\ fresh
    /\ Len(inserted) = 1
    /\ last.op = "insert"
    /\ ~is_new(disk, WalPath)

(* C14 as claimed: index equals WAL.  In an open engine the associations   *)
(* of the multimap are exactly the records of the WAL, as sets.            *)
C14_IndexEqualsWal ==
    engine = "ready" =>
        {mem_tree[i] : i \in 1..Len(mem_tree)} = {WalRecords[j] : j \in 1..Len(WalRecords)}

---------------------------------------------------------------------------
(* Claims read in the threshold specification.                             *)

(* C3: threshold trigger.  In a session opened on a fresh path, no         *)
(* compaction has run as long as at most MAX_MEMORY_ITEMS records were     *)
(* inserted, and exactly one has run when the insert after that returns;   *)
(* when that insert returns Ok the compaction is complete (P.new holds the *)
(* whole merged stream).                                                   *)
C3_ThresholdTrigger ==
    (engine = "ready" /\ fresh) =>
        /\ mem_count <= MAX_MEMORY_ITEMS => compactions = 0
        /\ mem_count = MAX_MEMORY_ITEMS + 1 =>
               /\ compactions = 1
               /\ last.result = "ok" =>
                      /\ Len(merged) = MAX_MEMORY_ITEMS + 1
                      /\ disk[NewPath].recs = Untag(merged)

\* the insert after the MAX_MEMORY_ITEMS-th has returned Ok
C3_Witness ==
    /\ engine = "ready"
    /\ fresh
    /\ mem_count = MAX_MEMORY_ITEMS + 1
    /\ last = [op |-> "insert", result |-> "ok", key |-> MAX_MEMORY_ITEMS + 1, value |-> 1,
               returned |-> "Ok"]
    /\ compactions = 1
    /\ count(disk, NewPath) = MAX_MEMORY_ITEMS + 1

(* C5: post-compaction lookup.  When an insert that ran a compaction       *)
(* returns Ok, get(k) still yields, for every key k, all the values it     *)
(* yielded before that insert, and get of the inserted key yields the      *)
(* inserted value.                                                         *)
C5_PostCompactionLookup ==
    [][(compactions' > compactions /\ last'.result = "ok") =>
           /\ \A i \in 1..Len(mem_tree) :
                  LET e == mem_tree[i]
                      after == MultiMapGet(mem_tree', e.key)
                  IN  /\ after.some
                      /\ \E j \in 1..Len(after.values) : after.values[j] = e.value
           /\ LET mine == MultiMapGet(mem_tree', last'.key)
              IN  \E j \in 1..Len(mine.values) : mine.values[j] = last'.value]_vars

\* a compaction has run and returned Ok, and key 1 is still found
C5_Witness ==
    /\ engine = "ready"
    /\ compactions > 0
    /\ last.op = "insert"
    /\ last.result = "ok"
    /\ get(1) = [some |-> TRUE, values |-> <<1>>]

(* C6: swap and truncate.  When an insert that ran a compaction returns    *)
(* Ok, the store file at P holds the merged records and the WAL is empty.  *)
C6_SwapAndTruncate ==
    (engine = "ready" /\ last.op = "insert" /\ last.result = "ok"
        /\ mem_count > MAX_MEMORY_ITEMS) =>
        /\ disk[TreePath].recs = Untag(merged)
        /\ WalRecords = <<>>

(* C8: the WAL is the exact history.  In every state the WAL's records are *)
(* the committed inserts, in insertion order: opening, compacting and      *)
(* reopening never rewrite, reorder or truncate it.                        *)
C8_WalIsHistory ==
    /\ WalRecords = inserted
    /\ count(disk, WalPath) = Len(inserted)

\* an engine reopened after a compaction, one insert later
C8_Witness ==
    /\ engine = "ready"
    /\ sessions = 2
    /\ session_start > MAX_MEMORY_ITEMS
    /\ Len(inserted) = session_start + 1
    /\ disk[NewPath].exists

(* C10: durability-first insert.  An insert whose WAL append fails changes *)
(* neither the multimap nor its count, starts no compaction and leaves all *)
(* files as they were; and no association is in the multimap without its   *)
(* record in the WAL.                                                      *)
C10_DurabilityFirst ==
    /\ [][(last'.op = "insert" /\ last'.result = "wal_err") =>
              /\ mem_tree' = mem_tree
              /\ mem_count' = mem_count
              /\ compactions' = compactions
              /\ disk' = disk]_vars
    /\ []({mem_tree[i] : i \in 1..Len(mem_tree)} \subseteq {WalRecords[j] : j \in 1..Len(WalRecords)})

\* the insert that would have crossed the threshold failed in its WAL append
C10_Witness ==
    /\ engine = "ready"
    /\ last.op = "insert"
    /\ last.result = "wal_err"
    /\ mem_count = MAX_MEMORY_ITEMS
    /\ count(disk, WalPath) = MAX_MEMORY_ITEMS
    /\ compactions = 0

(* C11 as claimed: insert committed despite compaction failure.  When an   *)
(* insert fails in its compaction, the caller gets an error, the record is *)
(* the WAL's last and get(key) yields the value, and what the caller gets  *)
(* differs from what a failed WAL append returns.                          *)
C11_CommittedAndDistinct ==
    (engine = "ready" /\ last.op = "insert" /\ last.result = "compact_err") =>
        /\ last.returned # "Ok"
        /\ Len(WalRecords) > 0
        /\ WalRecords[Len(WalRecords)] = KeyValuePair(last.key, last.value)
        /\ last.value \in GetValues(last.key)
        /\ last.returned # WalError

\* the part of C11 that holds: the error is returned and the record is committed
C11_Committed ==
    (engine = "ready" /\ last.op = "insert" /\ last.result = "compact_err") =>
        /\ last.returned # "Ok"
        /\ Len(WalRecords) > 0
        /\ WalRecords[Len(WalRecords)] = KeyValuePair(last.key, last.value)
        /\ last.value \in GetValues(last.key)

(* C12 as claimed: P.new is transient.  Between calls (after an open, and  *)
(* after any insert has returned) no file P.new exists.                    *)
C12_NewFileTransient == ~disk[NewPath].exists

\* the records of a file are in non-decreasing key order
KeySorted(recs) == \A i \in 1..(Len(recs) - 1) : recs[i].key <= recs[i + 1].key

(* C13 as claimed: sorted store.  The store file at P and the file built   *)
(* by compaction hold their records in non-decreasing key order.           *)
C13_StoresSorted ==
    /\ KeySorted(disk[TreePath].recs)
    /\ KeySorted(disk[NewPath].recs)

\* the elements of a merged stream that came from one source, in stream order
FromSource(stream, src) == Untag(SelectSeq(stream, LAMBDA e : e.src = src))

(* C16: compaction never relieves the trigger.  Once the count is above    *)
(* MAX_MEMORY_ITEMS, every insert that gets past its WAL append runs       *)
(* exactly one compaction, and each of them works on the same file P.new:  *)
(* the store at P is left as it was, and a compaction that ends Ok has     *)
(* added its whole merged stream to P.new.                                 *)
C16_TriggerNeverRelieved ==
    [][(mem_count' = mem_count + 1 /\ mem_count' > MAX_MEMORY_ITEMS) =>
           /\ compactions' = compactions + 1
           /\ disk'[TreePath] = disk[TreePath]
           /\ last'.result = "ok" =>
                  /\ disk'[NewPath].exists
                  /\ count(disk', NewPath) = count(disk, NewPath) + Len(merged')]_vars

\* the second insert above the threshold has run the second compaction on P.new
C16_Witness ==
    /\ engine = "ready"
    /\ mem_count = MAX_MEMORY_ITEMS + 2
    /\ compactions = 2
    /\ last.op = "insert"
    /\ last.result = "ok"
    /\ count(disk, NewPath) = 2 * MAX_MEMORY_ITEMS + 3

---------------------------------------------------------------------------
(* Claims read in the repeat specification.                                *)

\* the number of inserts of this session that got past their WAL append
SessionInserts == Len(inserted) - session_start

(* C15: the trigger counts insert operations.  In a session opened on a    *)
(* fresh path in which only the association (1, 1) is inserted, no         *)
(* compaction runs in the first MAX_MEMORY_ITEMS inserts and one runs in   *)
(* the insert after them, although get(1) yields the single value 1 and    *)
(* the in-memory stream that compaction merges holds one record.           *)
C15_TriggerCountsInserts ==
    (engine = "ready" /\ fresh) =>
        /\ SessionInserts <= MAX_MEMORY_ITEMS => compactions = 0
        /\ SessionInserts = MAX_MEMORY_ITEMS + 1 =>
               /\ compactions = 1
               /\ get(1) = [some |-> TRUE, values |-> <<1>>]
               /\ Len(MultiMapEntries(mem_tree)) = 1
               /\ last.result = "ok" =>
                      FromSource(merged, "mem") = <<KeyValuePair(1, 1)>>

\* the insert after the MAX_MEMORY_ITEMS-th has returned Ok, with one entry merged
C15_Witness ==
    /\ engine = "ready"
    /\ fresh
    /\ SessionInserts = MAX_MEMORY_ITEMS + 1
    /\ \A i \in 1..Len(inserted) : inserted[i] = KeyValuePair(1, 1)
    /\ last.op = "insert"
    /\ last.result = "ok"
    /\ compactions = 1
    /\ Len(merged) = 1
    /\ get(1) = [some |-> TRUE, values |-> <<1>>]

---------------------------------------------------------------------------
(* Claims read in the merge specification.                                 *)

(* C4: merge ordering.  When an insert that ran compact() returns Ok, the  *)
(* records compact() wrote to the new store are exactly the merged stream; *)
(* that stream is the multiset union of the multimap's entries and the     *)
(* store's records (each source's records all present, none dropped or     *)
(* deduplicated), in non-decreasing (key, value) order, and of two equal   *)
(* records from the two sources the multimap's comes first.                *)
C4_MergeOrdering ==
    [][(compactions' > compactions /\ last'.result = "ok") =>
           /\ disk'[NewPath].recs = disk[NewPath].recs \o Untag(merged')
           /\ FromSource(merged', "mem") = MultiMapEntries(mem_tree')
           /\ FromSource(merged', "disk") = disk[TreePath].recs
           /\ \A i \in 1..(Len(merged') - 1) :
                  LessEq(merged'[i].rec, merged'[i + 1].rec)
           /\ \A i \in 1..Len(merged') : \A j \in (i + 1)..Len(merged') :
                  merged'[i].rec = merged'[j].rec =>
                      ~(merged'[i].src = "disk" /\ merged'[j].src = "mem")]_vars

\* the store [(1,1), (2,1)] merged with the multimap {(1,2), (2,1)}: the streams
\* interleave, and the two copies of (2,1) are both written, the multimap's first
C4_Witness ==
    /\ engine = "ready"
    /\ last.result = "ok"
    /\ mem_count = MAX_MEMORY_ITEMS + 1
    /\ disk[TreePath].recs = <<KeyValuePair(1, 1), KeyValuePair(2, 1)>>
    /\ merged = <<[rec |-> KeyValuePair(1, 1), src |-> "disk"],
                  [rec |-> KeyValuePair(1, 2), src |-> "mem"],
                  [rec |-> KeyValuePair(2, 1), src |-> "mem"],
                  [rec |-> KeyValuePair(2, 1), src |-> "disk"]>>
    /\ disk[NewPath].recs = <<KeyValuePair(1, 1), KeyValuePair(1, 2),
                              KeyValuePair(2, 1), KeyValuePair(2, 1)>>

(* C17: frame of compact().  An insert that runs a compaction, whether the *)
(* compaction ends Ok or fails, changes the multimap, the count and the    *)
(* WAL by the insert's own record only, and leaves the store file at P as  *)
(* it was: the one file the compaction writes is P.new.                    *)
C17_CompactFrame ==
    [][compactions' > compactions =>
           /\ mem_tree' = insert_mem(mem_tree, last'.key, last'.value)
           /\ mem_count' = mem_count + 1
           /\ disk'[WalPath].exists
           /\ disk'[WalPath].recs =
                  Append(disk[WalPath].recs, KeyValuePair(last'.key, last'.value))
           /\ \A p \in Paths \ {WalPath, NewPath} : disk'[p] = disk[p]]_vars

\* a compaction has failed in its last write, with records in the store at P
\* and in P.new
C17_Witness ==
    /\ engine = "ready"
    /\ compactions = 1
    /\ last.op = "insert"
    /\ last.result = "compact_err"
    /\ Len(disk[TreePath].recs) = MaxDisk
    /\ count(disk, NewPath) = MaxDisk
    /\ mem_count = MAX_MEMORY_ITEMS + 1

(* C18: get consults the in-memory index only.  Whatever the store file at *)
(* P and the file P.new hold, get(k) is Some exactly for the keys inserted *)
(* in this session and yields exactly the values inserted for k in this    *)
(* session; a key that only the on-disk files hold yields None.            *)
C18_GetIgnoresStore ==
    engine = "ready" =>
        LET session == {inserted[i] : i \in (session_start + 1)..Len(inserted)} IN
        \A k \in Keys :
            LET vs == {r.value : r \in {x \in session : x.key = k}}
                found == get(k)
            IN  /\ found.some = (vs # {})
                /\ {found.values[i] : i \in 1..Len(found.values)} = vs
                /\ vs = {} => found = [some |-> FALSE, values |-> <<>>]

\* key 2 is in the store at P and in P.new but was never inserted: get(2) is None
C18_Witness ==
    /\ engine = "ready"
    /\ compactions = 1
    /\ last.result = "ok"
    /\ \E i \in 1..Len(disk[TreePath].recs) : disk[TreePath].recs[i].key = 2
    /\ \E i \in 1..Len(disk[NewPath].recs) : disk[NewPath].recs[i].key = 2
    /\ \A i \in 1..Len(inserted) : inserted[i].key = 1
    /\ get(1).some
    /\ get(2) = [some |-> FALSE, values |-> <<>>]

====
